---------------------------- MODULE Spec2Model ----------------------------
(***************************************************************************)
(* ExFS2: a userspace inode file store kept in segment files.  The model   *)
(* follows the complete implementation of the repository (exfs2.c): every  *)
(* command line invocation runs initialize_exfs2 and then one of ls, add,  *)
(* cat, rm, debug.  The state is what is on disk.                          *)
(*                                                                         *)
(* Geometry is scaled down.  A block is a row of BLOCK_CELLS cells, each a *)
(* natural number; a directory block, an indirect block and a file data    *)
(* block are three readings of the same cells, as they are three readings  *)
(* of the same 4096 bytes in the program.                                  *)
(***************************************************************************)
EXTENDS Integers, Naturals, Sequences, FiniteSets, TLC

\* ------------------------------------------------------------------ bounds
\* bytes of file content held by one data block (4096 in the program)
BLOCK_SIZE == 5
\* object slots of one segment (255 in the program)
USABLE_BLOCKS_PER_SEGMENT == 3
\* direct pointers of an inode (1018 in the program)
NUM_DIRECT == 1
\* pointers held by one indirect block (1024 in the program)
POINTERS_PER_INDIRECT_BLOCK == 1
\* directory entries held by one block (15 in the program)
DIRENTS_PER_BLOCK == 3
\* highest inode segment index / data segment index the host can hold
MaxInodeSeg == 1
MaxDataSeg == 1
\* longest path, in components, given to a command
MaxDepth == 3
\* commands run on the store since it was initialised
MaxCommands == 4

\* ------------------------------------------------------- program constants
ROOT_INODE_NUM == 0
\* (uint32_t)-1, the failure value of the allocator, as the 32 bit pattern:
\* no object number reaches it
UINT32_MAX == -1
\* sizeof(exfs2_dirent): uint32_t inode_num + char name[256]
DIRENT_SIZE == 260
\* S_IFDIR is 16384, which read as a block number is slot 64 of data
\* segment 64; S_IFREG is twice that.  Scaled with the segment size so that
\* the type codes stay inside the block number space as they are in the
\* program: slot 1 of data segment 1, and twice that.
EXFS2_IFDIR == USABLE_BLOCKS_PER_SEGMENT + 1
EXFS2_IFREG == 2 * EXFS2_IFDIR

K == USABLE_BLOCKS_PER_SEGMENT
NumInodes == (MaxInodeSeg + 1) * K
NumBlocks == (MaxDataSeg + 1) * K

Max2(a, b) == IF a >= b THEN a ELSE b
\* cells of a block: room for each of its three readings
BLOCK_CELLS == Max2(2 * DIRENTS_PER_BLOCK, Max2(POINTERS_PER_INDIRECT_BLOCK, BLOCK_SIZE))

\* ------------------------------------------------------------ bit helpers
RECURSIVE BitAnd(_, _)
BitAnd(a, b) ==
    IF a = 0 \/ b = 0 THEN 0
    ELSE (IF a % 2 = 1 /\ b % 2 = 1 THEN 1 ELSE 0) + 2 * BitAnd(a \div 2, b \div 2)

\* the uint16_t mode field of the 4 bytes that start an inode slot
ModeOf(word) == word % 65536

IsDir(mode) == BitAnd(mode, EXFS2_IFDIR) # 0
IsReg(mode) == BitAnd(mode, EXFS2_IFREG) # 0

\* ------------------------------------------------------------------ names
\* strncpy of a component into the name field: the bytes of the name, here
\* one cell.  The empty name (a zeroed field) is 0.
NameCode(s) ==
    CASE s = "." -> 1
      [] s = ".." -> 2
      [] s = "a" -> 3
      [] s = "b" -> 4
      [] s = "/" -> 5
      [] OTHER -> 0

\* ------------------------------------------------------------ disk images
ZeroCells == [c \in 1..BLOCK_CELLS |-> 0]
ZeroDirect == [i \in 1..NUM_DIRECT |-> 0]
\* the first 4096 bytes of an inode record; triple_indirect lies beyond them
ZeroSlot == [word |-> 0, size |-> 0, direct |-> ZeroDirect, single |-> 0, double |-> 0]
\* exfs2_inode x = {0}
ZeroInode == [mode |-> 0, size |-> 0, direct |-> ZeroDirect, single |-> 0,
              double |-> 0, triple |-> 0]
NoTail == -1

\* no segment file exists
EmptyDisk ==
    [ib |-> {}, db |-> {},
     ino |-> [n \in 0..(NumInodes - 1) |-> ZeroSlot],
     tail |-> [s \in 0..MaxInodeSeg |-> NoTail],
     blk |-> [b \in 0..(NumBlocks - 1) |-> ZeroCells],
     maxI |-> -1, maxD |-> -1, over |-> FALSE]

\* --------------------------------------------------- block and inode I/O
\* read_block: -1 when the segment file is missing
read_block_ok(fs, b) == b \div K <= fs.maxD /\ b < NumBlocks
read_block(fs, b) == IF read_block_ok(fs, b) THEN fs.blk[b] ELSE ZeroCells

\* write_block: the whole block is replaced
write_block(fs, b, cells) ==
    IF b < NumBlocks
    THEN [fs EXCEPT !.blk[b] = cells,
                    !.maxD = IF b \div K > fs.maxD THEN b \div K ELSE fs.maxD]
    ELSE [fs EXCEPT !.over = TRUE]

\* read_inode reads sizeof(exfs2_inode) = 4104 bytes from a 4096 byte slot:
\* triple_indirect is the first 4 bytes of the next slot, and for the last
\* slot of a segment the 8 bytes past the end of the 1 MiB file, which exist
\* only once that inode has been written (short read otherwise).
read_inode_ok(fs, n) ==
    /\ n < NumInodes
    /\ n \div K <= fs.maxI
    /\ (n % K = K - 1 => fs.tail[n \div K] # NoTail)

read_inode(fs, n) ==
    IF read_inode_ok(fs, n)
    THEN [mode |-> ModeOf(fs.ino[n].word), size |-> fs.ino[n].size,
          direct |-> fs.ino[n].direct, single |-> fs.ino[n].single,
          double |-> fs.ino[n].double,
          triple |-> IF n % K = K - 1 THEN fs.tail[n \div K] ELSE fs.ino[n + 1].word]
    ELSE ZeroInode

\* write_inode writes 4104 bytes: the record, and triple_indirect over the
\* mode of the next slot.  The mode keeps the upper 2 bytes of its word zero
\* (the struct padding of a zero-initialised or read record).
write_inode(fs, n, rec) ==
    IF n >= NumInodes THEN [fs EXCEPT !.over = TRUE]
    ELSE
    LET slot == [word |-> rec.mode, size |-> rec.size, direct |-> rec.direct,
                 single |-> rec.single, double |-> rec.double]
        ino1 == [fs.ino EXCEPT ![n] = slot]
        ino2 == IF n % K = K - 1 THEN ino1
                ELSE [ino1 EXCEPT ![n + 1].word = rec.triple]
        tail2 == IF n % K = K - 1 THEN [fs.tail EXCEPT ![n \div K] = rec.triple]
                 ELSE fs.tail
    IN [fs EXCEPT !.ino = ino2, !.tail = tail2,
                  !.maxI = IF n \div K > fs.maxI THEN n \div K ELSE fs.maxI]

\* ------------------------------------------------------------- allocation
\* the bits of one kind: "i" inode segments, "d" data segments
Bits(fs, kind) == IF kind = "i" THEN fs.ib ELSE fs.db
MaxIdx(fs, kind) == IF kind = "i" THEN fs.maxI ELSE fs.maxD
MaxSegOf(kind) == IF kind = "i" THEN MaxInodeSeg ELSE MaxDataSeg
SetBits(fs, kind, bits) == IF kind = "i" THEN [fs EXCEPT !.ib = bits] ELSE [fs EXCEPT !.db = bits]
SetMaxIdx(fs, kind, m) == IF kind = "i" THEN [fs EXCEPT !.maxI = m] ELSE [fs EXCEPT !.maxD = m]

\* slots the scan of existing segments may return: inode 0 and data block 0
\* are skipped
FreeSlots(fs, kind) ==
    {g \in 1..((MaxIdx(fs, kind) + 1) * K - 1) : g \notin Bits(fs, kind)}

SetMin(S) == CHOOSE x \in S : \A y \in S : x <= y

\* allocate_generic: [num, fs]; num = UINT32_MAX on failure
allocate_generic_grow(fs, kind) ==
    LET new_segment_idx == MaxIdx(fs, kind) + 1
    IN IF new_segment_idx > MaxSegOf(kind)
       THEN [num |-> UINT32_MAX, fs |-> [fs EXCEPT !.over = TRUE]]
       ELSE [num |-> new_segment_idx * K,
             fs |-> SetMaxIdx(SetBits(fs, kind, Bits(fs, kind) \cup {new_segment_idx * K}),
                              kind, new_segment_idx)]

\* allocate_generic that opens a segment without a look at the existing ones
allocate_generic_eager(fs, kind) == allocate_generic_grow(fs, kind)

\* allocate_generic that takes the highest free slot of the existing segments
allocate_generic_highest(fs, kind) ==
    IF FreeSlots(fs, kind) # {}
    THEN LET g == CHOOSE x \in FreeSlots(fs, kind) : \A y \in FreeSlots(fs, kind) : x >= y
         IN [num |-> g, fs |-> SetBits(fs, kind, Bits(fs, kind) \cup {g})]
    ELSE allocate_generic_grow(fs, kind)

allocate_generic(fs, kind) ==
    IF FreeSlots(fs, kind) # {}
    THEN LET g == SetMin(FreeSlots(fs, kind))
         IN [num |-> g, fs |-> SetBits(fs, kind, Bits(fs, kind) \cup {g})]
    ELSE allocate_generic_grow(fs, kind)

\* free_generic that leaves the bit set
free_generic_kept(fs, global_num, kind) == fs

\* free_generic that clears the bit of the slot after the one it is given
free_generic_next(fs, global_num, kind) ==
    SetBits(fs, kind, Bits(fs, kind) \ {global_num + 1})

\* free_generic without the refusal of number 0
free_generic_zero(fs, global_num, kind) ==
    IF global_num \div K > MaxIdx(fs, kind) THEN fs
    ELSE SetBits(fs, kind, Bits(fs, kind) \ {global_num})

\* free_generic
free_generic(fs, global_num, kind) ==
    IF global_num = 0 THEN fs
    ELSE IF global_num \div K > MaxIdx(fs, kind) THEN fs
    ELSE SetBits(fs, kind, Bits(fs, kind) \ {global_num})

free_inode(fs, n) == free_generic(fs, n, "i")
free_block(fs, b) == free_generic(fs, b, "d")

\* allocate_inode: the new slot is overwritten with a zeroed record
allocate_inode(fs) ==
    LET a == allocate_generic(fs, "i")
    IN IF a.num = UINT32_MAX THEN a
       ELSE [num |-> a.num, fs |-> write_inode(a.fs, a.num, ZeroInode)]

\* allocate_block: 0 on failure; the new block is zeroed
allocate_block(fs) ==
    LET a == allocate_generic(fs, "d")
    IN IF a.num = UINT32_MAX THEN [num |-> 0, fs |-> a.fs]
       ELSE [num |-> a.num, fs |-> write_block(a.fs, a.num, ZeroCells)]

\* ---------------------------------------------------------- block readings
\* exfs2_dirent entries[j] of a block, j from 0
EntIno(cells, j) == cells[2 * j + 1]
EntName(cells, j) == cells[2 * j + 2]
SetEnt(cells, j, ino, name) == [cells EXCEPT ![2 * j + 1] = ino, ![2 * j + 2] = name]
\* indirect_block.block_ptrs[i], i from 0
Ptr(cells, i) == cells[i + 1]
SetPtr(cells, i, b) == [cells EXCEPT ![i + 1] = b]
\* a chunk of file bytes, zero padded to the block
DataCells(chunk) == [c \in 1..BLOCK_CELLS |-> IF c <= Len(chunk) THEN chunk[c] ELSE 0]

\* ---------------------------------------------------------- initialization
\* initialize_exfs2 that sets up segment 0 whether it is there or not
initialize_always(fs) ==
    LET root_dir_block_buf ==
            SetEnt(SetEnt(ZeroCells, 0, ROOT_INODE_NUM, NameCode(".")),
                   1, ROOT_INODE_NUM, NameCode(".."))
        root_inode_data == [ZeroInode EXCEPT !.mode = EXFS2_IFDIR,
                                             !.size = 2 * DIRENT_SIZE]
        f1 == [fs EXCEPT !.maxI = IF @ < 0 THEN 0 ELSE @, !.maxD = IF @ < 0 THEN 0 ELSE @,
                         !.ib = {ROOT_INODE_NUM}, !.db = {0}]
        f2 == write_block(f1, 0, root_dir_block_buf)
    IN write_inode(f2, ROOT_INODE_NUM, root_inode_data)

\* initialize_exfs2: runs at the start of every invocation
initialize_exfs2(fs) ==
    IF fs.maxI < 0 \/ fs.maxD < 0
    THEN LET root_dir_block_buf ==
                 SetEnt(SetEnt(ZeroCells, 0, ROOT_INODE_NUM, NameCode(".")),
                        1, ROOT_INODE_NUM, NameCode(".."))
             root_inode_data == [ZeroInode EXCEPT !.mode = EXFS2_IFDIR,
                                                  !.size = 2 * DIRENT_SIZE]
             f1 == [fs EXCEPT !.maxI = 0, !.maxD = 0, !.ib = {ROOT_INODE_NUM}, !.db = {0}]
             f2 == write_block(f1, 0, root_dir_block_buf)
         IN write_inode(f2, ROOT_INODE_NUM, root_inode_data)
    ELSE fs

\* ------------------------------------------------------ directory store
\* positions of a directory in scan order: direct block i, entry j
DirPos == 0..(NUM_DIRECT * DIRENTS_PER_BLOCK - 1)
PosBlock(rec, p) == rec.direct[(p \div DIRENTS_PER_BLOCK) + 1]
PosEnt(p) == p % DIRENTS_PER_BLOCK
\* the block of position p is allocated (pointer not 0) and readable
PosReadable(fs, rec, p) == PosBlock(rec, p) # 0 /\ read_block_ok(fs, PosBlock(rec, p))
PosIno(fs, rec, p) == EntIno(read_block(fs, PosBlock(rec, p)), PosEnt(p))
PosName(fs, rec, p) == EntName(read_block(fs, PosBlock(rec, p)), PosEnt(p))

\* find_entry_in_dir: inode number of the first live entry with the name, 0
\* when there is none, the inode cannot be read or is not a directory
find_entry_in_dir(fs, dir_inode_num, name) ==
    LET dir_inode == read_inode(fs, dir_inode_num)
        hits == {p \in DirPos : /\ PosReadable(fs, dir_inode, p)
                                /\ PosIno(fs, dir_inode, p) # 0
                                /\ PosName(fs, dir_inode, p) = name}
    IN IF ~read_inode_ok(fs, dir_inode_num) \/ ~IsDir(dir_inode.mode) THEN 0
       ELSE IF hits = {} THEN 0
       ELSE PosIno(fs, dir_inode, SetMin(hits))

\* add_entry_to_dir that takes the last unused entry of the existing blocks
add_entry_to_dir_last(fs, parent_inode_num, name, entry_inode_num) ==
    LET parent_inode == read_inode(fs, parent_inode_num)
        free == {p \in DirPos : PosReadable(fs, parent_inode, p) /\ PosIno(fs, parent_inode, p) = 0}
        unused == {i \in 0..(NUM_DIRECT - 1) : parent_inode.direct[i + 1] = 0}
    IN IF ~read_inode_ok(fs, parent_inode_num) \/ ~IsDir(parent_inode.mode)
       THEN [rc |-> -1, fs |-> fs]
       ELSE IF free # {}
       THEN LET p == CHOOSE x \in free : \A y \in free : x >= y
                block_num == PosBlock(parent_inode, p)
                f1 == write_block(fs, block_num,
                                  SetEnt(read_block(fs, block_num), PosEnt(p), entry_inode_num, name))
            IN [rc |-> 0,
                fs |-> write_inode(f1, parent_inode_num,
                                   [parent_inode EXCEPT !.size = @ + DIRENT_SIZE])]
       ELSE IF unused # {}
       THEN LET i == SetMin(unused)
                a == allocate_block(fs)
                f1 == write_block(a.fs, a.num, SetEnt(ZeroCells, 0, entry_inode_num, name))
            IN IF a.num = 0 THEN [rc |-> -1, fs |-> a.fs]
               ELSE [rc |-> 0,
                     fs |-> write_inode(f1, parent_inode_num,
                                        [parent_inode EXCEPT !.direct[i + 1] = a.num,
                                                             !.size = @ + DIRENT_SIZE])]
       ELSE [rc |-> -1, fs |-> fs]

\* add_entry_to_dir: [rc, fs]
add_entry_to_dir(fs, parent_inode_num, name, entry_inode_num) ==
    LET parent_inode == read_inode(fs, parent_inode_num)
        free == {p \in DirPos : PosReadable(fs, parent_inode, p) /\ PosIno(fs, parent_inode, p) = 0}
        unused == {i \in 0..(NUM_DIRECT - 1) : parent_inode.direct[i + 1] = 0}
    IN IF ~read_inode_ok(fs, parent_inode_num) \/ ~IsDir(parent_inode.mode)
       THEN [rc |-> -1, fs |-> fs]
       ELSE IF free # {}
       THEN LET p == SetMin(free)
                block_num == PosBlock(parent_inode, p)
                f1 == write_block(fs, block_num,
                                  SetEnt(read_block(fs, block_num), PosEnt(p), entry_inode_num, name))
            IN [rc |-> 0,
                fs |-> write_inode(f1, parent_inode_num,
                                   [parent_inode EXCEPT !.size = @ + DIRENT_SIZE])]
       ELSE IF unused # {}
       THEN LET i == SetMin(unused)
                a == allocate_block(fs)
                f1 == write_block(a.fs, a.num, SetEnt(ZeroCells, 0, entry_inode_num, name))
            IN IF a.num = 0 THEN [rc |-> -1, fs |-> a.fs]
               ELSE [rc |-> 0,
                     fs |-> write_inode(f1, parent_inode_num,
                                        [parent_inode EXCEPT !.direct[i + 1] = a.num,
                                                             !.size = @ + DIRENT_SIZE])]
       ELSE [rc |-> -1, fs |-> fs]

\* remove_entry_from_dir that reports success and leaves the entry in place
remove_entry_kept(fs, parent_inode_num, name) == [rc |-> 0, fs |-> fs]

\* remove_entry_from_dir: [rc, fs]; the directory size is left as it is
remove_entry_from_dir(fs, parent_inode_num, name) ==
    LET parent_inode == read_inode(fs, parent_inode_num)
        hits == {p \in DirPos : /\ PosReadable(fs, parent_inode, p)
                                /\ PosIno(fs, parent_inode, p) # 0
                                /\ PosName(fs, parent_inode, p) = name}
    IN IF ~read_inode_ok(fs, parent_inode_num) \/ ~IsDir(parent_inode.mode)
       THEN [rc |-> -1, fs |-> fs]
       ELSE IF hits = {} THEN [rc |-> -1, fs |-> fs]
       ELSE LET p == SetMin(hits)
                block_num == PosBlock(parent_inode, p)
            IN [rc |-> 0,
                fs |-> write_block(fs, block_num,
                                   SetEnt(read_block(fs, block_num), PosEnt(p), 0, 0))]

\* ------------------------------------------------------------ removal walk
\* a recursion deeper than the number of inodes has met an inode twice and
\* never returns: the process dies of stack exhaustion and what it had
\* already written stays
MaxRecursion == NumInodes + 1

\* the entries recursive_free descends into, in scan order
FreeChildren(fs, inode) ==
    LET ps == {p \in DirPos : /\ PosReadable(fs, inode, p)
                              /\ PosIno(fs, inode, p) # 0
                              /\ PosName(fs, inode, p) # NameCode(".")
                              /\ PosName(fs, inode, p) # NameCode("..")}
    IN [ps |-> ps, ino |-> [p \in ps |-> PosIno(fs, inode, p)]]

\* the block frees of recursive_free once the children are done
RECURSIVE FreeBlockList(_, _)
FreeBlockList(fs, bs) ==
    IF bs = << >> THEN fs ELSE FreeBlockList(free_block(fs, Head(bs)), Tail(bs))

SeqOfPtrs(cells) == [i \in 1..POINTERS_PER_INDIRECT_BLOCK |-> Ptr(cells, i - 1)]

\* a block pointer that is set is freed
FreeIfSet(fs, b) == IF b # 0 THEN free_block(fs, b) ELSE fs

\* the blocks the single indirect block points to, then the block itself
FreeSingle(fs, inode) ==
    IF inode.single # 0
    THEN free_block(IF read_block_ok(fs, inode.single)
                    THEN FreeBlockList(fs, SeqOfPtrs(read_block(fs, inode.single)))
                    ELSE fs,
                    inode.single)
    ELSE fs

FreeOwnBlocks(fs, inode) ==
    FreeIfSet(FreeIfSet(FreeSingle(FreeBlockList(fs, inode.direct), inode),
                        inode.double),
              inode.triple)

\* recursive_free that returns at once and frees nothing
recursive_free_nothing(fs, inode_num, fuel) == [fs |-> fs, crashed |-> FALSE]

RECURSIVE recursive_free(_, _, _)
RECURSIVE recursive_free_children(_, _, _, _)

\* recursive_free: [fs, crashed]
recursive_free(fs, inode_num, fuel) ==
    IF inode_num = 0 \/ inode_num = UINT32_MAX THEN [fs |-> fs, crashed |-> FALSE]
    ELSE IF fuel = 0 THEN [fs |-> fs, crashed |-> TRUE]
    ELSE IF ~read_inode_ok(fs, inode_num)
    THEN [fs |-> free_inode(fs, inode_num), crashed |-> FALSE]
    ELSE LET inode == read_inode(fs, inode_num)
             ch == FreeChildren(fs, inode)
             r == IF IsDir(inode.mode)
                  THEN recursive_free_children(fs, ch.ps, ch.ino, fuel - 1)
                  ELSE [fs |-> fs, crashed |-> FALSE]
         IN IF r.crashed THEN r
            ELSE [fs |-> free_inode(FreeOwnBlocks(r.fs, inode), inode_num), crashed |-> FALSE]

recursive_free_children(fs, ps, inoOf, fuel) ==
    IF ps = {} THEN [fs |-> fs, crashed |-> FALSE]
    ELSE LET p == SetMin(ps)
             r == recursive_free(fs, inoOf[p], fuel)
         IN IF r.crashed THEN r
            ELSE recursive_free_children(r.fs, ps \ {p}, inoOf, fuel)

\* ----------------------------------------------------------- path resolver
\* A path is the sequence of its components ("/" is the empty sequence);
\* dirname and basename of the C library on it.
dirname(path) == IF path = << >> THEN << >> ELSE SubSeq(path, 1, Len(path) - 1)
basename(path) == IF path = << >> THEN "/" ELSE path[Len(path)]

\* step 5 of the creation of a directory: with the outcome ae of the entry
\* in the parent
create_intermediate_entry(ae, new_dir_inode_num) ==
    IF ae.rc # 0
    THEN [rc |-> -1, inode |-> 0,
          fs |-> recursive_free(ae.fs, new_dir_inode_num, MaxRecursion).fs]
    ELSE [rc |-> 0, inode |-> new_dir_inode_num, fs |-> ae.fs]

\* steps 2 to 5 of the creation of a directory: with the outcome ab of the
\* allocation of its block
create_intermediate_block(ab, parent_inode_num, component, new_dir_inode_num) ==
    LET new_dir_block_num == ab.num
        new_dir_inode == [ZeroInode EXCEPT !.mode = EXFS2_IFDIR,
                                           !.direct[1] = new_dir_block_num,
                                           !.size = 2 * DIRENT_SIZE]
        new_dir_block_buf ==
            SetEnt(SetEnt(ZeroCells, 0, new_dir_inode_num, NameCode(".")),
                   1, parent_inode_num, NameCode(".."))
    IN IF new_dir_block_num = 0
       THEN [rc |-> -1, inode |-> 0, fs |-> free_inode(ab.fs, new_dir_inode_num)]
       ELSE create_intermediate_entry(
                add_entry_to_dir(
                    write_inode(write_block(ab.fs, new_dir_block_num, new_dir_block_buf),
                                new_dir_inode_num, new_dir_inode),
                    parent_inode_num, NameCode(component), new_dir_inode_num),
                new_dir_inode_num)

\* the new directory of create-missing: [rc, inode, fs]
create_intermediate(fs, parent_inode_num, component) ==
    LET ai == allocate_inode(fs)
    IN IF ai.num = UINT32_MAX THEN [rc |-> -1, inode |-> 0, fs |-> ai.fs]
       ELSE create_intermediate_block(allocate_block(ai.fs), parent_inode_num,
                                      component, ai.num)

RECURSIVE traverse_from(_, _, _, _, _)
\* the token loop goes on in the directory c that was created
traverse_created(c, path, k, create_missing) ==
    IF c.rc # 0 THEN c
    ELSE traverse_from(c.fs, path, k + 1, c.inode, create_missing)

\* the token loop of traverse_path from component k on: [rc, inode, fs]
traverse_from(fs, path, k, current_inode_num, create_missing) ==
    IF k > Len(path) THEN [rc |-> 0, inode |-> current_inode_num, fs |-> fs]
    ELSE
    LET component == path[k]
        current_inode_data == read_inode(fs, current_inode_num)
        parent_inode_num == current_inode_num
        next_inode_num == find_entry_in_dir(fs, current_inode_num, NameCode(component))
        is_last_component == (k = Len(path))
    IN IF ~read_inode_ok(fs, current_inode_num) THEN [rc |-> -1, inode |-> 0, fs |-> fs]
       ELSE IF ~IsDir(current_inode_data.mode) THEN [rc |-> -1, inode |-> 0, fs |-> fs]
       ELSE IF next_inode_num # 0
       THEN traverse_from(fs, path, k + 1, next_inode_num, create_missing)
       ELSE IF create_missing /\ is_last_component
       THEN [rc |-> 0, inode |-> parent_inode_num, fs |-> fs]
       ELSE IF create_missing
       THEN traverse_created(create_intermediate(fs, parent_inode_num, component),
                             path, k, create_missing)
       ELSE [rc |-> -1, inode |-> 0, fs |-> fs]

\* traverse_path that creates what is missing whatever it is asked
traverse_path_creating(fs, path, create_missing) ==
    traverse_from(fs, path, 1, ROOT_INODE_NUM, TRUE)

\* traverse_path that in create-missing mode makes a directory of the final
\* component as well
traverse_path_final(fs, path, create_missing) ==
    IF create_missing /\ path # << >>
    THEN traverse_from(fs, Append(path, "."), 1, ROOT_INODE_NUM, TRUE)
    ELSE traverse_from(fs, path, 1, ROOT_INODE_NUM, create_missing)

traverse_path(fs, path, create_missing) ==
    traverse_from(fs, path, 1, ROOT_INODE_NUM, create_missing)

\* what traverse_path copies to last_component when it returns t: the last
\* token of the path, "/" for the root, nothing on failure
last_component(t, path) == IF t.rc = 0 THEN NameCode(basename(path)) ELSE 0

\* -------------------------------------------------------------- block map
\* the single indirect block of the inode, made when it is missing and
\* allocation is asked for: [ok, inode, fs]
single_indirect_block(fs, inode, allocate_if_needed, file_inode_num) ==
    LET as == allocate_block(fs)
        inode1 == [inode EXCEPT !.single = as.num]
    IN IF inode.single # 0 THEN [ok |-> TRUE, inode |-> inode, fs |-> fs]
       ELSE IF ~allocate_if_needed THEN [ok |-> FALSE, inode |-> inode, fs |-> fs]
       ELSE IF as.num = 0 THEN [ok |-> FALSE, inode |-> inode1, fs |-> as.fs]
       ELSE [ok |-> TRUE, inode |-> inode1,
             fs |-> write_block(write_inode(as.fs, file_inode_num, inode1),
                                inode1.single, ZeroCells)]

\* the pointer at an index of the single indirect block s, allocated when
\* it is missing and allocation is asked for
single_indirect_entry(s, index_in_indirect, allocate_if_needed) ==
    LET indir_block == read_block(s.fs, s.inode.single)
        have == Ptr(indir_block, index_in_indirect)
        a == allocate_block(s.fs)
    IN IF ~s.ok THEN [num |-> 0, inode |-> s.inode, fs |-> s.fs]
       ELSE IF ~read_block_ok(s.fs, s.inode.single)
       THEN [num |-> 0, inode |-> s.inode, fs |-> s.fs]
       ELSE IF have = 0 /\ allocate_if_needed
       THEN IF a.num = 0 THEN [num |-> 0, inode |-> s.inode, fs |-> a.fs]
            ELSE [num |-> a.num, inode |-> s.inode,
                  fs |-> write_block(a.fs, s.inode.single,
                                     SetPtr(indir_block, index_in_indirect, a.num))]
       ELSE [num |-> have, inode |-> s.inode, fs |-> s.fs]

\* get_block_num_for_file_offset that allocates whether asked to or not
get_block_num_allocating(fs, inode, offset, allocate_if_needed, file_inode_num) ==
    LET block_index_in_file == offset \div BLOCK_SIZE
        have == inode.direct[block_index_in_file + 1]
        a == allocate_block(fs)
        inode1 == [inode EXCEPT !.direct[block_index_in_file + 1] = a.num]
    IN IF block_index_in_file < NUM_DIRECT
       THEN IF have # 0 THEN [num |-> have, inode |-> inode, fs |-> fs]
            ELSE IF a.num = 0 THEN [num |-> 0, inode |-> inode, fs |-> a.fs]
            ELSE [num |-> a.num, inode |-> inode1,
                  fs |-> write_inode(a.fs, file_inode_num, inode1)]
       ELSE IF block_index_in_file < NUM_DIRECT + POINTERS_PER_INDIRECT_BLOCK
       THEN single_indirect_entry(
                single_indirect_block(fs, inode, TRUE, file_inode_num),
                block_index_in_file - NUM_DIRECT, TRUE)
       ELSE [num |-> 0, inode |-> inode, fs |-> fs]

\* get_block_num_for_file_offset: [num, inode, fs]; inode is the caller's
\* in-memory record, updated in place
get_block_num_for_file_offset(fs, inode, offset, allocate_if_needed, file_inode_num) ==
    LET block_index_in_file == offset \div BLOCK_SIZE
        direct_limit == NUM_DIRECT
        single_limit == direct_limit + POINTERS_PER_INDIRECT_BLOCK
    IN IF block_index_in_file < NUM_DIRECT
       THEN LET have == inode.direct[block_index_in_file + 1]
                a == allocate_block(fs)
                inode1 == [inode EXCEPT !.direct[block_index_in_file + 1] = a.num]
            IN IF have = 0 /\ allocate_if_needed
               THEN IF a.num = 0 THEN [num |-> 0, inode |-> inode, fs |-> a.fs]
                    ELSE [num |-> a.num, inode |-> inode1,
                          fs |-> write_inode(a.fs, file_inode_num, inode1)]
               ELSE [num |-> have, inode |-> inode, fs |-> fs]
       ELSE IF block_index_in_file < single_limit
       THEN single_indirect_entry(
                single_indirect_block(fs, inode, allocate_if_needed, file_inode_num),
                block_index_in_file - direct_limit, allocate_if_needed)
       ELSE \* double and triple indirect blocks are not implemented
            [num |-> 0, inode |-> inode, fs |-> fs]

\* ---------------------------------------------------------------- commands
Min2(a, b) == IF a <= b THEN a ELSE b

RECURSIVE add_file_stream(_, _, _, _, _)
\* one round of the fread loop, with the outcome g of the block map
add_file_block(g, bytes, current_offset, new_file_inode_num) ==
    LET bytes_read == Min2(BLOCK_SIZE, Len(bytes) - current_offset)
        buffer == DataCells(SubSeq(bytes, current_offset + 1, current_offset + bytes_read))
    IN IF g.num = 0
       THEN [fs |-> g.fs, inode |-> g.inode, write_error |-> TRUE]
       ELSE add_file_stream(write_block(g.fs, g.num, buffer),
                            [g.inode EXCEPT !.size = @ + bytes_read], bytes,
                            current_offset + bytes_read, new_file_inode_num)

\* the fread loop of add_file: [fs, inode, write_error]
add_file_stream(fs, new_file_inode, bytes, current_offset, new_file_inode_num) ==
    IF current_offset >= Len(bytes)
    THEN [fs |-> fs, inode |-> new_file_inode, write_error |-> FALSE]
    ELSE add_file_block(get_block_num_for_file_offset(fs, new_file_inode, current_offset,
                                                      TRUE, new_file_inode_num),
                        bytes, current_offset, new_file_inode_num)

\* what add_file frees after a failure, and its report
add_file_cleanup(r, res, new_file_inode_num) ==
    [fs |-> r.fs, res |-> IF r.crashed THEN "crash" ELSE res, inode |-> new_file_inode_num]

\* the end of add_file, with the outcome ae of the entry in the parent
add_file_entry(ae, new_file_inode_num) ==
    IF ae.rc # 0
    THEN add_file_cleanup(recursive_free(ae.fs, new_file_inode_num, MaxRecursion),
                          "noentry", new_file_inode_num)
    ELSE [fs |-> ae.fs, res |-> "ok", inode |-> new_file_inode_num]

\* add_file after the fread loop, with the outcome st of the loop
add_file_written(st, parent_inode_num, filename, new_file_inode_num) ==
    IF st.write_error
    THEN add_file_cleanup(recursive_free(st.fs, new_file_inode_num, MaxRecursion),
                          "write_error", new_file_inode_num)
    ELSE add_file_entry(
             add_entry_to_dir(write_inode(st.fs, new_file_inode_num, st.inode),
                              parent_inode_num, NameCode(filename), new_file_inode_num),
             new_file_inode_num)

\* add_file with the outcome ai of the allocation of its inode
add_file_inode(ai, parent_inode_num, filename, local) ==
    IF ai.num = UINT32_MAX THEN [fs |-> ai.fs, res |-> "noinode", inode |-> 0]
    ELSE add_file_written(
             add_file_stream(ai.fs, [ZeroInode EXCEPT !.mode = EXFS2_IFREG], local.bytes,
                             0, ai.num),
             parent_inode_num, filename, ai.num)

\* add_file once the path is accepted: the host file is opened, an inode is
\* allocated, the content is streamed into it and the entry is added to the
\* parent; a failure after the allocation frees what was allocated
add_file_store(fs, parent_inode_num, filename, local) ==
    IF ~local.readable THEN [fs |-> fs, res |-> "nolocal", inode |-> 0]
    ELSE add_file_inode(allocate_inode(fs), parent_inode_num, filename, local)

\* the parent directory add_file and remove_file_or_dir work in: [rc, inode, fs]
parent_of(fs, parent_path, create_missing) ==
    IF parent_path = << >>
    THEN [rc |-> 0, inode |-> ROOT_INODE_NUM, fs |-> fs]
    ELSE traverse_path(fs, parent_path, create_missing)

\* add_file in the parent t with the lookup of the name left out
add_file_in_unchecked(t, filename, local) ==
    IF t.rc # 0 THEN [fs |-> t.fs, res |-> "noparent", inode |-> 0]
    ELSE add_file_store(t.fs, t.inode, filename, local)

\* add_file with the lookup of the name in the parent left out
add_file_unchecked(fs, exfs2_path, local) ==
    IF basename(exfs2_path) \in {"/", ".", ".."}
    THEN [fs |-> fs, res |-> "invalid", inode |-> 0]
    ELSE add_file_in_unchecked(parent_of(fs, dirname(exfs2_path), TRUE),
                               basename(exfs2_path), local)

\* add_file in the parent t that the path resolved to
add_file_in(t, filename, local) ==
    IF t.rc # 0 THEN [fs |-> t.fs, res |-> "noparent", inode |-> 0]
    ELSE IF find_entry_in_dir(t.fs, t.inode, NameCode(filename)) # 0
    THEN [fs |-> t.fs, res |-> "exists", inode |-> 0]
    ELSE add_file_store(t.fs, t.inode, filename, local)

\* add_file with the refusal of the names "/", "." and ".." left out
add_file_any_name(fs, exfs2_path, local) ==
    add_file_in(parent_of(fs, dirname(exfs2_path), TRUE), basename(exfs2_path), local)

\* add_file: [fs, res, inode]; local is the host file: [readable, bytes]
add_file(fs, exfs2_path, local) ==
    LET parent_path == dirname(exfs2_path)
        filename == basename(exfs2_path)
    IN IF filename \in {"/", ".", ".."} THEN [fs |-> fs, res |-> "invalid", inode |-> 0]
       ELSE add_file_in(parent_of(fs, parent_path, TRUE), filename, local)

RECURSIVE extract_file_loop(_, _, _, _, _)
\* one round of the read loop, with the block the block map gave
extract_file_block(fs, file_inode, remaining_size, current_offset, out, current_block_num) ==
    LET buffer == read_block(fs, current_block_num)
        bytes_to_write == Min2(remaining_size, BLOCK_SIZE)
    IN IF current_block_num = 0 \/ ~read_block_ok(fs, current_block_num)
       THEN [res |-> "read_error", out |-> out]
       ELSE extract_file_loop(fs, file_inode, remaining_size - bytes_to_write,
                              current_offset + bytes_to_write,
                              out \o [c \in 1..bytes_to_write |-> buffer[c]])

\* the read loop of extract_file: [res, out]
extract_file_loop(fs, file_inode, remaining_size, current_offset, out) ==
    IF remaining_size = 0 THEN [res |-> "ok", out |-> out]
    ELSE extract_file_block(
             fs, file_inode, remaining_size, current_offset, out,
             get_block_num_for_file_offset(fs, file_inode, current_offset, FALSE, 0).num)

\* extract_file on an inode without the test of its type
extract_file_inode_untyped(fs, file_inode_num) ==
    LET file_inode == read_inode(fs, file_inode_num)
    IN IF ~read_inode_ok(fs, file_inode_num) THEN [res |-> "noinode", out |-> << >>]
       ELSE extract_file_loop(fs, file_inode, file_inode.size, 0, << >>)

\* extract_file on the inode the path resolved to
extract_file_inode(fs, file_inode_num) ==
    LET file_inode == read_inode(fs, file_inode_num)
    IN IF ~read_inode_ok(fs, file_inode_num) THEN [res |-> "noinode", out |-> << >>]
       ELSE IF ~IsReg(file_inode.mode) THEN [res |-> "notreg", out |-> << >>]
       ELSE extract_file_loop(fs, file_inode, file_inode.size, 0, << >>)

\* what a command that reads reports, with the store it leaves
with_store(r, fs) == [res |-> r.res, out |-> r.out, fs |-> fs]

\* the path of extract_file resolved to t
extract_file_at(t) ==
    IF t.rc # 0 THEN [res |-> "notfound", out |-> << >>, fs |-> t.fs]
    ELSE with_store(extract_file_inode(t.fs, t.inode), t.fs)

\* extract_file: [res, out, fs]; out is what reaches the standard output
extract_file(fs, exfs2_path) ==
    extract_file_at(traverse_path(fs, exfs2_path, FALSE))

\* the end of remove_file_or_dir, with the outcome r of the walk that frees
remove_freed(r, target_inode_num) ==
    [fs |-> r.fs, res |-> IF r.crashed THEN "crash" ELSE "ok", inode |-> target_inode_num]

\* remove_file_or_dir with the outcome re of taking the entry out of the
\* parent
remove_entry_done(re, target_inode_num) ==
    IF re.rc # 0 THEN [fs |-> re.fs, res |-> "noentry", inode |-> target_inode_num]
    ELSE remove_freed(recursive_free(re.fs, target_inode_num, MaxRecursion),
                      target_inode_num)

\* the store at the calls remove_file_or_dir makes for a name that the
\* parent holds: as it finds it, once remove_entry_from_dir has returned,
\* and once recursive_free has returned
remove_steps_free_first(fs, parent_inode_num, target_name) ==
    LET target_inode_num == find_entry_in_dir(fs, parent_inode_num, NameCode(target_name))
        freed == recursive_free(fs, target_inode_num, MaxRecursion).fs
    IN << fs, freed,
          remove_entry_from_dir(freed, parent_inode_num, NameCode(target_name)).fs >>

remove_steps(fs, parent_inode_num, target_name) ==
    LET target_inode_num == find_entry_in_dir(fs, parent_inode_num, NameCode(target_name))
        cleared == remove_entry_from_dir(fs, parent_inode_num, NameCode(target_name)).fs
    IN << fs, cleared, recursive_free(cleared, target_inode_num, MaxRecursion).fs >>

\* remove_file_or_dir of a name in the parent directory
remove_in_parent(fs, parent_inode_num, target_name) ==
    LET target_inode_num == find_entry_in_dir(fs, parent_inode_num, NameCode(target_name))
    IN IF target_inode_num = 0 THEN [fs |-> fs, res |-> "notfound", inode |-> 0]
       ELSE remove_entry_done(
                remove_entry_from_dir(fs, parent_inode_num, NameCode(target_name)),
                target_inode_num)

\* the parent path of remove_file_or_dir resolved to t
remove_at(t, target_name) ==
    IF t.rc # 0 THEN [fs |-> t.fs, res |-> "noparent", inode |-> 0]
    ELSE remove_in_parent(t.fs, t.inode, target_name)

\* remove_file_or_dir on a path other than the root: the entry is taken out
\* of the parent, then the target and what is beneath it are freed
remove_target(fs, exfs2_path) ==
    LET parent_path == dirname(exfs2_path)
        target_name == basename(exfs2_path)
    IN IF target_name \in {".", ".."} THEN [fs |-> fs, res |-> "invalid", inode |-> 0]
       ELSE remove_at(parent_of(fs, parent_path, FALSE), target_name)

\* remove_file_or_dir with the refusal of the root left out
remove_file_or_dir_any(fs, exfs2_path) == remove_target(fs, exfs2_path)

\* remove_file_or_dir: [fs, res, inode]
remove_file_or_dir(fs, exfs2_path) ==
    IF exfs2_path = << >> THEN [fs |-> fs, res |-> "root", inode |-> 0]
    ELSE remove_target(fs, exfs2_path)

RECURSIVE list_directory(_, _, _, _)
RECURSIVE list_entries(_, _, _, _, _, _)

\* list_directory: [lines, crashed]; a line is what one printf prints
list_directory(fs, dir_inode_num, indent, fuel) ==
    LET dir_inode == read_inode(fs, dir_inode_num)
        ps == {p \in DirPos : PosReadable(fs, dir_inode, p) /\ PosIno(fs, dir_inode, p) # 0}
    IN IF fuel = 0 THEN [lines |-> << >>, crashed |-> TRUE]
       ELSE IF ~read_inode_ok(fs, dir_inode_num) \/ ~IsDir(dir_inode.mode)
       THEN [lines |-> << >>, crashed |-> FALSE]
       ELSE list_entries(fs, dir_inode, ps, indent, fuel, << >>)

list_entries(fs, dir_inode, ps, indent, fuel, lines) ==
    IF ps = {} THEN [lines |-> lines, crashed |-> FALSE]
    ELSE LET p == SetMin(ps)
             entry_inode_num == PosIno(fs, dir_inode, p)
             name == PosName(fs, dir_inode, p)
             entry_inode == read_inode(fs, entry_inode_num)
             is_dir == read_inode_ok(fs, entry_inode_num) /\ IsDir(entry_inode.mode)
             line == [name |-> name, inode |-> entry_inode_num, dir |-> is_dir,
                      size |-> entry_inode.size, indent |-> indent]
             sub == IF is_dir /\ name # NameCode(".") /\ name # NameCode("..")
                    THEN list_directory(fs, entry_inode_num, indent + 1, fuel - 1)
                    ELSE [lines |-> << >>, crashed |-> FALSE]
         IN IF sub.crashed
            THEN [lines |-> (lines \o << line >>) \o sub.lines, crashed |-> TRUE]
            ELSE list_entries(fs, dir_inode, ps \ {p}, indent, fuel,
                              (lines \o << line >>) \o sub.lines)

\* what list_directory gave, as the report of the ls command
list_result(l, fs) ==
    [res |-> IF l.crashed THEN "crash" ELSE "ok", lines |-> l.lines, fs |-> fs]

\* the path of the ls command resolved to t
list_at(t) ==
    IF t.rc # 0 THEN [res |-> "notfound", lines |-> << >>, fs |-> t.fs]
    ELSE IF ~read_inode_ok(t.fs, t.inode)
    THEN [res |-> "noinode", lines |-> << >>, fs |-> t.fs]
    ELSE IF ~IsDir(read_inode(t.fs, t.inode).mode)
    THEN [res |-> "notdir", lines |-> << >>, fs |-> t.fs]
    ELSE list_result(list_directory(t.fs, t.inode, 0, MaxRecursion), t.fs)

\* the ls command of main: [res, lines, fs]
list_command(fs, path) == list_at(traverse_path(fs, path, FALSE))

\* what debug_path prints of an inode it reached
debug_line(fs, inode_num) ==
    LET inode == read_inode(fs, inode_num)
    IN [inode |-> inode_num, read |-> read_inode_ok(fs, inode_num),
        dir |-> IsDir(inode.mode), size |-> inode.size,
        direct |-> inode.direct, single |-> inode.single]

RECURSIVE debug_from(_, _, _, _, _)
\* the token loop of debug_path from component k on: [res, trace, fs]
debug_from(fs, path, k, current_inode_num, trace) ==
    LET current_inode_data == read_inode(fs, current_inode_num)
        next_inode_num == find_entry_in_dir(fs, current_inode_num, NameCode(path[k]))
    IN IF ~read_inode_ok(fs, current_inode_num)
       THEN [res |-> "noinode", trace |-> trace, fs |-> fs]
       ELSE IF ~IsDir(current_inode_data.mode)
       THEN [res |-> "notdir", trace |-> trace, fs |-> fs]
       ELSE IF next_inode_num = 0
       THEN [res |-> "notfound", trace |-> trace, fs |-> fs]
       ELSE IF k = Len(path)
       THEN [res |-> "ok", trace |-> Append(trace, debug_line(fs, next_inode_num)), fs |-> fs]
       ELSE debug_from(fs, path, k + 1, next_inode_num,
                       Append(trace, debug_line(fs, next_inode_num)))

\* debug_path that resolves the path as add_file resolves a parent path
debug_path_creating(fs, exfs2_path) ==
    [res |-> "ok", trace |-> << >>, fs |-> traverse_path(fs, exfs2_path, TRUE).fs]

\* debug_path: [res, trace, fs]; trace is the inodes it printed
debug_path(fs, exfs2_path) ==
    IF ~read_inode_ok(fs, ROOT_INODE_NUM)
    THEN [res |-> "noinode", trace |-> << >>, fs |-> fs]
    ELSE IF exfs2_path = << >>
    THEN [res |-> "ok", trace |-> << debug_line(fs, ROOT_INODE_NUM) >>, fs |-> fs]
    ELSE debug_from(fs, exfs2_path, 1, ROOT_INODE_NUM, << debug_line(fs, ROOT_INODE_NUM) >>)

\* the exit status of main: ls alone returns EXIT_FAILURE, on a path it
\* cannot list; add_file, extract_file, remove_file_or_dir and debug_path
\* return nothing and main returns EXIT_SUCCESS after them.  A process that
\* died of stack exhaustion ends with the status of its signal (SIGSEGV, 11).
EXIT_SUCCESS == 0
EXIT_FAILURE == 1
main_exit(op, res) ==
    IF res = "crash" THEN 128 + 11
    ELSE IF op = "ls" /\ res # "ok" THEN EXIT_FAILURE
    ELSE EXIT_SUCCESS

\* ------------------------------------------- the byte-per-slot allocator
\* The allocator of the variant that keeps one byte per slot at the head of
\* each segment file.  segs is the sequence of the segment files of one kind
\* that exist, each given by its bitmap; segment number s is segs[s + 1].
\* The slots of a segment: the program has 255, and divides by 255
BITMAP_BYTES == 2
ZeroBitmap == [i \in 0..(BITMAP_BYTES - 1) |-> 0]
ZeroBytes(bitmap) == {i \in 0..(BITMAP_BYTES - 1) : bitmap[i] = 0}

\* the segment the search loop of create_inode and create_datablock stops
\* at: the first that has a free byte, or the first that does not exist
found_segment(segs) ==
    LET have == {s \in 0..(Len(segs) - 1) : ZeroBytes(segs[s + 1]) # {}}
    IN IF have = {} THEN Len(segs) ELSE SetMin(have)

\* create_inode: [num, segment, index, segs]; num is what it returns,
\* segment and index are the slot it marked and wrote
create_inode(segs) ==
    LET segment_num == found_segment(segs)
        bitmap == IF segment_num = Len(segs) THEN ZeroBitmap ELSE segs[segment_num + 1]
        i == SetMin(ZeroBytes(bitmap))
        marked == [bitmap EXCEPT ![i] = 1]
    IN [num |-> i, segment |-> segment_num, index |-> i,
        segs |-> IF segment_num = Len(segs) THEN Append(segs, marked)
                 ELSE [segs EXCEPT ![segment_num + 1] = marked]]

\* create_datablock: as create_inode, on the data segments
create_datablock(segs) ==
    LET segment_num == found_segment(segs)
        bitmap == IF segment_num = Len(segs) THEN ZeroBitmap ELSE segs[segment_num + 1]
        i == SetMin(ZeroBytes(bitmap))
        marked == [bitmap EXCEPT ![i] = 1]
    IN [num |-> i, segment |-> segment_num, index |-> i,
        segs |-> IF segment_num = Len(segs) THEN Append(segs, marked)
                 ELSE [segs EXCEPT ![segment_num + 1] = marked]]

\* read_inode of the variant: [rc, segment, index]; the slot it reads
read_inode_slot(segs, inode_number) ==
    LET segment_num == inode_number \div BITMAP_BYTES
        inode_index == inode_number % BITMAP_BYTES
    IN IF segment_num >= Len(segs) THEN [rc |-> -1, segment |-> segment_num, index |-> inode_index]
       ELSE IF segs[segment_num + 1][inode_index] = 0
       THEN [rc |-> -2, segment |-> segment_num, index |-> inode_index]
       ELSE [rc |-> 0, segment |-> segment_num, index |-> inode_index]

\* read_datablock of the variant: [rc, segment, index]
read_datablock_slot(segs, datablock_number) ==
    LET segment_num == datablock_number \div BITMAP_BYTES
        datablock_index == datablock_number % BITMAP_BYTES
    IN IF segment_num >= Len(segs)
       THEN [rc |-> -1, segment |-> segment_num, index |-> datablock_index]
       ELSE IF segs[segment_num + 1][datablock_index] = 0
       THEN [rc |-> -2, segment |-> segment_num, index |-> datablock_index]
       ELSE [rc |-> 0, segment |-> segment_num, index |-> datablock_index]

\* free_inode of the variant: the segments after it
free_inode_slot(segs, inode_number) ==
    LET segment_num == inode_number \div BITMAP_BYTES
        inode_index == inode_number % BITMAP_BYTES
    IN IF segment_num >= Len(segs) THEN segs
       ELSE [segs EXCEPT ![segment_num + 1][inode_index] = 0]

\* free_datablock of the variant: the segments after it
free_datablock_slot(segs, datablock_number) ==
    LET segment_num == datablock_number \div BITMAP_BYTES
        block_index == datablock_number % BITMAP_BYTES
    IN IF segment_num >= Len(segs) THEN segs
       ELSE [segs EXCEPT ![segment_num + 1][block_index] = 0]

\* ------------------------------------------------------------------ state
VARIABLES
    inode_bitmap,            \* bits set in the bitmaps of the inode segments
    data_bitmap,             \* bits set in the bitmaps of the data segments
    inode_slots,             \* the 4096 byte slots of the inode segments
    inode_tail,              \* the bytes past the last slot of an inode segment
    data_blocks,             \* the blocks of the data segments
    max_inode_segment_idx,   \* index of the last inode segment file
    max_data_segment_idx,    \* index of the last data segment file
    commands,                \* invocations of the program so far
    last,                    \* the invocation a run ended with, and its report
    variant                  \* the segment bitmaps of the byte-per-slot variant
                             \* and what its last create call returned

store_vars == << inode_bitmap, data_bitmap, inode_slots, inode_tail, data_blocks,
                 max_inode_segment_idx, max_data_segment_idx, commands, last >>

vars == << inode_bitmap, data_bitmap, inode_slots, inode_tail, data_blocks,
           max_inode_segment_idx, max_data_segment_idx, commands, last, variant >>

\* the segment files as one value
Disk ==
    [ib |-> inode_bitmap, db |-> data_bitmap, ino |-> inode_slots, tail |-> inode_tail,
     blk |-> data_blocks, maxI |-> max_inode_segment_idx, maxD |-> max_data_segment_idx,
     over |-> FALSE]

\* the segment files after an invocation; an invocation that would need more
\* segments than the host holds is not run.  A run is at most MaxCommands
\* invocations.  Any invocation may be the one the run ends with: it is then
\* reported in last.  One that is followed by others has changed the store
\* (what follows one that has not is what follows without it).
Install(fs, report) ==
    /\ ~fs.over
    /\ inode_bitmap' = fs.ib
    /\ data_bitmap' = fs.db
    /\ inode_slots' = fs.ino
    /\ inode_tail' = fs.tail
    /\ data_blocks' = fs.blk
    /\ max_inode_segment_idx' = fs.maxI
    /\ max_data_segment_idx' = fs.maxD
    /\ \/ commands' = MaxCommands /\ last' = report
       \/ fs # Disk /\ commands' = commands + 1 /\ last' = last
    /\ UNCHANGED variant

\* ----------------------------------------------------------------- inputs
Names == {"a", "b"}
Components == Names
Paths == UNION {[1..n -> Components] : n \in 0..MaxDepth}

\* one byte more than the block map reaches
MaxFileLen == (NUM_DIRECT + POINTERS_PER_INDIRECT_BLOCK) * BLOCK_SIZE + 1
\* an empty file, a file one byte short of what the block map reaches (its
\* last block is partly filled) and a file one byte beyond it
FileLens == {0, MaxFileLen - 2, MaxFileLen}
\* the host file of the given length; its bytes differ from place to place
\* and none is 0
Content(len) == [i \in 1..len |-> 1 + (i % 2)]
\* a host file of one block of 0 bytes
ZeroFile == [i \in 1..BLOCK_SIZE |-> 0]
\* the host files a command is given, and a host file that cannot be opened
LocalFiles ==
    {[readable |-> TRUE, bytes |-> Content(len)] : len \in FileLens}
        \cup {[readable |-> TRUE, bytes |-> ZeroFile]}
        \cup {[readable |-> FALSE, bytes |-> << >>]}

\* what is kept of the invocation a run ends with: the operation, its path
\* and its outcome; whether the path resolved before it ran; the bytes it
\* moved (read from the host file by an add that got an inode, written out
\* by a cat); the inode an add or a remove got as far as; and the store it
\* started from
NoCommand ==
    [op |-> "none", res |-> "ok", path |-> << >>, found |-> FALSE, bytes |-> << >>,
     inode |-> 0, before |-> EmptyDisk]

Report(op, res, path, bytes, inode) ==
    [op |-> op, res |-> res, path |-> path,
     found |-> traverse_path(Disk, path, FALSE).rc = 0,
     bytes |-> bytes, inode |-> inode, before |-> Disk]

\* the variant before its first run: no segment file, nothing created
NotCreated == [kind |-> "none", num |-> 0, segment |-> 0, index |-> 0]
NoSegments == [inodes |-> << >>, data |-> << >>, created |-> NotCreated]

\* ---------------------------------------------------------------- actions
Init ==
    LET fs == initialize_exfs2(EmptyDisk)
    IN /\ inode_bitmap = fs.ib
       /\ data_bitmap = fs.db
       /\ inode_slots = fs.ino
       /\ inode_tail = fs.tail
       /\ data_blocks = fs.blk
       /\ max_inode_segment_idx = fs.maxI
       /\ max_data_segment_idx = fs.maxD
       /\ commands = 0
       /\ last = NoCommand
       /\ variant = NoSegments

\* exfs2 --add local path
Add(path, local) ==
    /\ commands < MaxCommands
    /\ \E r \in {add_file(initialize_exfs2(Disk), path, local)} :
           Install(r.fs, Report("add", r.res, path,
                                IF r.inode # 0 THEN local.bytes ELSE << >>, r.inode))

\* exfs2 --rm path
Remove(path) ==
    /\ commands < MaxCommands
    /\ \E r \in {remove_file_or_dir(initialize_exfs2(Disk), path)} :
           Install(r.fs, Report("rm", r.res, path, << >>, r.inode))

\* exfs2 --cat path
Extract(path) ==
    /\ commands < MaxCommands
    /\ \E r \in {extract_file(initialize_exfs2(Disk), path)} :
           Install(r.fs, Report("cat", r.res, path, r.out, 0))

\* exfs2 --ls path
List(path) ==
    /\ commands < MaxCommands
    /\ \E r \in {list_command(initialize_exfs2(Disk), path)} :
           Install(r.fs, Report("ls", r.res, path, << >>, 0))

\* exfs2 --debug path
Debug(path) ==
    /\ commands < MaxCommands
    /\ \E r \in {debug_path(initialize_exfs2(Disk), path)} :
           Install(r.fs, Report("debug", r.res, path, << >>, 0))

Next ==
    \/ \E path \in Paths, local \in LocalFiles : Add(path, local)
    \/ \E path \in Paths : Remove(path)
    \/ \E path \in Paths : Extract(path)
    \/ \E path \in Paths : List(path)
    \/ \E path \in Paths : Debug(path)

Spec == Init /\ [][Next]_vars

\* ------------------------------------- the byte-per-slot allocator alone
\* the segment files of one kind the host holds
MaxVariantSegments == 2
VariantNumbers == 0..(MaxVariantSegments * BITMAP_BYTES - 1)

\* a call of create_inode; it is not made when it would need one segment
\* file more than the host holds
CreateInode ==
    /\ found_segment(variant.inodes) < MaxVariantSegments
    /\ \E r \in {create_inode(variant.inodes)} :
           variant' = [variant EXCEPT
                          !.inodes = r.segs,
                          !.created = [kind |-> "inode", num |-> r.num,
                                       segment |-> r.segment, index |-> r.index]]
    /\ UNCHANGED store_vars

\* a call of create_datablock
CreateDatablock ==
    /\ found_segment(variant.data) < MaxVariantSegments
    /\ \E r \in {create_datablock(variant.data)} :
           variant' = [variant EXCEPT
                          !.data = r.segs,
                          !.created = [kind |-> "data", num |-> r.num,
                                       segment |-> r.segment, index |-> r.index]]
    /\ UNCHANGED store_vars

\* a call of free_inode
FreeInode(inode_number) ==
    /\ variant' = [variant EXCEPT !.inodes = free_inode_slot(@, inode_number),
                                  !.created = NotCreated]
    /\ UNCHANGED store_vars

\* a call of free_datablock
FreeDatablock(datablock_number) ==
    /\ variant' = [variant EXCEPT !.data = free_datablock_slot(@, datablock_number),
                                  !.created = NotCreated]
    /\ UNCHANGED store_vars

VariantNext ==
    \/ CreateInode
    \/ CreateDatablock
    \/ \E n \in VariantNumbers : FreeInode(n)
    \/ \E n \in VariantNumbers : FreeDatablock(n)

VariantSpec == Init /\ [][VariantNext]_vars

\* ================================================================ properties

\* strict resolution of a path in the store as it stands
Resolve(path) == traverse_path(Disk, path, FALSE)

\* the proper prefixes of a path, the root excluded
DirPrefixes(path) == {SubSeq(path, 1, k) : k \in 1..(Len(path) - 1)}

\* a path resolves to a live directory
IsDirAt(path) ==
    LET t == Resolve(path)
    IN t.rc = 0 /\ read_inode_ok(Disk, t.inode) /\ IsDir(read_inode(Disk, t.inode).mode)

\* the size the block map is described to reach: D + P + P^2 + P^3 blocks
FileCapacity ==
    (NUM_DIRECT + POINTERS_PER_INDIRECT_BLOCK
       + POINTERS_PER_INDIRECT_BLOCK * POINTERS_PER_INDIRECT_BLOCK
       + POINTERS_PER_INDIRECT_BLOCK * POINTERS_PER_INDIRECT_BLOCK
           * POINTERS_PER_INDIRECT_BLOCK) * BLOCK_SIZE

\* C1: a host file of at most (D + P + P^2 + P^3) blocks that is added at a
\* path and then extracted from that path comes back byte for byte (stated
\* for a path directly under the root, so that no directory is involved).
C1_RoundTrip ==
    (last.op = "add" /\ last.res \in {"ok", "write_error"}
       /\ Len(last.path) = 1 /\ Len(last.bytes) <= FileCapacity)
        => LET e == extract_file(Disk, last.path)
           IN e.res = "ok" /\ e.out = last.bytes

\* C2: after a successful add of /d1/.../dn/f every di is a directory nested
\* in its predecessor and the full path resolves strictly to the new file.
C2_IntermediatesCreated ==
    (last.op = "add" /\ last.res = "ok")
        => /\ \A d \in DirPrefixes(last.path) : IsDirAt(d)
           /\ Resolve(last.path).rc = 0
           /\ Resolve(last.path).inode = last.inode

\* C3: an add whose path already names an entry fails as "already exists"
\* and leaves the store exactly as it was, whatever the host file.
C3_AddExistingRefused ==
    (last.op = "add" /\ last.found /\ last.path # << >>)
        => last.res = "exists" /\ Disk = last.before

\* an add of a path beneath a directory has just been refused because the
\* path existed
C3_Witness ==
    /\ last.op = "add" /\ last.res = "exists" /\ last.found
    /\ Len(last.path) = 2
    /\ IsDirAt(dirname(last.path))

\* C4: add(/x/y) followed by remove(/x/y) leaves the directory /x in place,
\* without the entry y.
C4_ParentKept ==
    (last.op = "add" /\ last.res = "ok" /\ Len(last.path) = 2)
        => LET r == remove_file_or_dir(Disk, last.path)
               x == traverse_path(r.fs, dirname(last.path), FALSE)
           IN /\ r.res = "ok"
              /\ x.rc = 0
              /\ IsDir(read_inode(r.fs, x.inode).mode)
              /\ find_entry_in_dir(r.fs, x.inode, NameCode(basename(last.path))) = 0

\* path p is path q or leads to it
IsPrefix(p, q) == Len(p) <= Len(q) /\ SubSeq(q, 1, Len(p)) = p

\* where a path leads in a store: the inode it resolves to and that
\* inode's record
Target(fs, path) ==
    LET t == traverse_path(fs, path, FALSE)
    IN IF t.rc # 0 \/ ~read_inode_ok(fs, t.inode) THEN [rc |-> -1]
       ELSE [rc |-> 0, inode |-> t.inode, rec |-> read_inode(fs, t.inode)]

\* what a path shows in a store: where it leads, its content as a file and
\* its listing as a directory
View(fs, path) ==
    LET e == extract_file(fs, path)
        l == list_command(fs, path)
    IN [target |-> Target(fs, path), data |-> << e.res, e.out >>,
        listing |-> << l.res, l.lines >>]

\* C5: removing a path that names a directory removes the whole subtree (no
\* path at or beneath it resolves afterwards, so none is listed); ancestors
\* lead where they led, and every other path shows what it showed.
C5_SubtreeRemoved ==
    (last.op = "rm" /\ last.res = "ok"
       /\ IsDir(read_inode(last.before, last.inode).mode))
        => \A q \in Paths :
               IF IsPrefix(last.path, q) THEN Resolve(q).rc # 0
               ELSE IF IsPrefix(q, last.path)
               THEN Target(Disk, q) = Target(last.before, q)
               ELSE View(Disk, q) = View(last.before, q)

\* a directory holding a file has just been removed while a file beside it
\* stays
C5_Witness ==
    /\ last.op = "rm" /\ last.res = "ok" /\ Len(last.path) = 1
    /\ IsDir(read_inode(last.before, last.inode).mode)
    /\ \E n \in Names : extract_file(last.before, Append(last.path, n)).res = "ok"
    /\ \E n \in Names : <<n>> # last.path /\ extract_file(Disk, <<n>>).res = "ok"

\* C6: a remove of the root is refused and changes nothing, and inode 0 is a
\* live directory in every reachable state.
C6_RootKept ==
    /\ (last.op = "rm" /\ last.path = << >>)
          => last.res = "root" /\ Disk = last.before
    /\ ROOT_INODE_NUM \in inode_bitmap
    /\ IsDir(read_inode(Disk, ROOT_INODE_NUM).mode)

\* a remove of the root has just been refused in a store that holds more
\* than the root
C6_Witness ==
    /\ last.op = "rm" /\ last.path = << >> /\ last.res = "root"
    /\ Cardinality(inode_bitmap) >= 2

\* the inodes whose bit is set in the inode bitmap
LiveInodes == {i \in 0..(NumInodes - 1) : i \in inode_bitmap /\ read_inode_ok(Disk, i)}

\* the pointer slots the block map of inode i follows, each with the block
\* it names: its direct slots, its single-indirect slot and the slots of its
\* single-indirect block
PointerSlots(i) ==
    LET rec == read_inode(Disk, i)
        leaves == IF rec.single # 0 /\ read_block_ok(Disk, rec.single)
                  THEN {<<i, "leaf", k, Ptr(read_block(Disk, rec.single), k)>> :
                            k \in 0..(POINTERS_PER_INDIRECT_BLOCK - 1)}
                  ELSE {}
    IN {<<i, "direct", k, rec.direct[k + 1]>> : k \in 0..(NUM_DIRECT - 1)}
         \cup {<<i, "single", 0, rec.single>>} \cup leaves

\* the non-null pointers held by live inodes
LivePointers == {s \in UNION {PointerSlots(i) : i \in LiveInodes} : s[4] # 0}

\* C7: for every data block other than block 0, its bitmap bit is set exactly
\* when some live inode reaches it, directly or through an indirect block.
C7_BitmapAgreement ==
    \A b \in 1..(NumBlocks - 1) :
        (b \in data_bitmap) <=> (\E s \in LivePointers : s[4] = b)

\* C8: no data block is named by two pointers of live inodes.
C8_NoAliasing ==
    \A s1 \in LivePointers, s2 \in LivePointers : s1[4] = s2[4] => s1 = s2

\* the names of the live entries of directory i, one per position
LiveEntries(i) ==
    LET rec == read_inode(Disk, i)
    IN {p \in DirPos : PosReadable(Disk, rec, p) /\ PosIno(Disk, rec, p) # 0}

\* C9: within every directory no two live entries have the same name.
C9_NamesUnique ==
    \A i \in LiveInodes :
        IsDir(read_inode(Disk, i).mode)
            => \A p1 \in LiveEntries(i), p2 \in LiveEntries(i) :
                   PosName(Disk, read_inode(Disk, i), p1)
                       = PosName(Disk, read_inode(Disk, i), p2) => p1 = p2

\* the non-null leaf pointers of inode i: its direct slots and the slots of
\* its single-indirect block
LeafPointers(i) == {s \in PointerSlots(i) : s[2] # "single" /\ s[4] # 0}

\* C10: for every regular file the number of non-null leaf pointers is the
\* number of blocks its size needs, ceil(size / B).
C10_LeafCount ==
    \A i \in LiveInodes :
        IsReg(read_inode(Disk, i).mode)
            => Cardinality(LeafPointers(i))
                 = (read_inode(Disk, i).size + BLOCK_SIZE - 1) \div BLOCK_SIZE

\* C11: in every directory a path leads to, the name ".." leads to the
\* directory one component up, and in the root to the root itself.
C11_ParentLink ==
    \A q \in Paths :
        IsDirAt(q)
            => LET up == traverse_path(Disk, Append(q, ".."), FALSE)
               IN /\ up.rc = 0
                  /\ up.inode = IF q = << >> THEN ROOT_INODE_NUM
                                ELSE Resolve(dirname(q)).inode

\* the first data block of the file held by an inode of a store
FirstBlock(fs, inode_num) == read_inode(fs, inode_num).direct[1]

\* the remove of the path just added, and the add of the same host file at
\* the same path after it
RemoveLast == remove_file_or_dir(Disk, last.path)
AddAgain == add_file(RemoveLast.fs, last.path, [readable |-> TRUE, bytes |-> last.bytes])

\* C12: a file that was added and is removed can be added again, and with
\* nothing allocated in between it gets the inode number and the first data
\* block number it had the first time.
C12_ReAddSameNumbers ==
    (last.op = "add" /\ last.res = "ok" /\ RemoveLast.res = "ok")
        => /\ AddAgain.res = "ok"
           /\ AddAgain.inode = last.inode
           /\ FirstBlock(AddAgain.fs, AddAgain.inode) = FirstBlock(Disk, last.inode)

\* a file with content has been added beneath a directory in a store that
\* holds another file, and its remove succeeds
C12_Witness ==
    /\ last.op = "add" /\ last.res = "ok" /\ Len(last.path) = 2
    /\ RemoveLast.res = "ok"
    /\ FirstBlock(Disk, last.inode) # 0
    /\ AddAgain.res = "ok"
    /\ Cardinality(inode_bitmap) >= 4

\* the two kinds of segment
Kinds == {"i", "d"}

\* an allocation of the kind in the store, when it succeeds, returns a slot
\* whose bit was clear and below which no slot but slot 0 is free
AllocatesLowest(fs, kind) ==
    LET a == allocate_generic(fs, kind)
    IN a.num # UINT32_MAX
           => /\ a.num \notin Bits(fs, kind)
              /\ \A g \in 1..(a.num - 1) : g \in Bits(fs, kind)

\* C13: allocate returns the lowest-numbered free slot of its kind: no slot
\* with a smaller number is free (slot 0 aside) and the bit of the returned
\* slot was clear before the call.
C13_LowestFree == \A kind \in Kinds : AllocatesLowest(Disk, kind)

\* an add directly under the root has just got the inode that allocate
\* returns on the store it started from, and that inode lies below an inode
\* in use: a hole was filled
C13_Witness ==
    /\ last.op = "add" /\ last.res = "ok" /\ Len(last.path) = 1
    /\ last.inode = allocate_generic(last.before, "i").num
    /\ \E g \in last.before.ib : g > last.inode

\* the slot an allocation of the kind returns once the slot a first
\* allocation returned has been freed
AllocatedAfterFree(fs, kind) ==
    LET a == allocate_generic(fs, kind)
    IN allocate_generic(free_generic(a.fs, a.num, kind), kind).num

\* C14: a slot that is allocated and then freed is the slot the next
\* allocation of its kind returns, when nothing else is allocated in
\* between.
C14_FreeThenSame ==
    \A kind \in Kinds :
        allocate_generic(Disk, kind).num # UINT32_MAX
            => AllocatedAfterFree(Disk, kind) = allocate_generic(Disk, kind).num

\* the existing data segments are full while slots of other segments are
\* in use: the allocation opens a segment, and the slot it returns is
\* returned again after it is freed
C14_Witness ==
    /\ FreeSlots(Disk, "d") = {}
    /\ Cardinality(inode_bitmap) >= 3
    /\ allocate_generic(Disk, "d").num = (max_data_segment_idx + 1) * K
    /\ AllocatedAfterFree(Disk, "d") = (max_data_segment_idx + 1) * K

GrowsWhenFull(fs, kind) ==
    LET a == allocate_generic(fs, kind)
    IN /\ MaxIdx(a.fs, kind) >= MaxIdx(fs, kind)
       /\ MaxIdx(a.fs, kind) > MaxIdx(fs, kind)
              => /\ FreeSlots(fs, kind) = {}
                 /\ MaxIdx(a.fs, kind) = MaxIdx(fs, kind) + 1
                 /\ a.num = (MaxIdx(fs, kind) + 1) * K
                 /\ a.num \in Bits(a.fs, kind)

\* C16: a segment is opened only by an allocation that finds every segment
\* of its kind full, and that allocation returns slot 0 of the new segment;
\* no command, remove included, leaves fewer segments than it found.
C16_SegmentsGrowWhenFull ==
    /\ \A kind \in Kinds : GrowsWhenFull(Disk, kind)
    /\ max_inode_segment_idx >= last.before.maxI
    /\ max_data_segment_idx >= last.before.maxD

\* a second data segment was opened in this run; a remove has just emptied
\* it, it stays, and the next allocation of a block finds a free slot and
\* opens no segment
C16_Witness ==
    /\ last.op = "rm" /\ last.res = "ok"
    /\ max_data_segment_idx = 1
    /\ \E b \in last.before.db : b >= K
    /\ \A b \in data_bitmap : b < K
    /\ MaxIdx(allocate_generic(Disk, "d").fs, "d") = 1

\* some component of the path does not exist in the directory that the
\* components before it lead to
MissingComponent(fs, path) ==
    \E k \in 1..Len(path) :
        LET t == traverse_path(fs, SubSeq(path, 1, k - 1), FALSE)
        IN /\ t.rc = 0
           /\ read_inode_ok(fs, t.inode)
           /\ IsDir(read_inode(fs, t.inode).mode)
           /\ find_entry_in_dir(fs, t.inode, NameCode(path[k])) = 0

\* C17: a list, an extract or a remove of a path with a component that does
\* not exist fails as not found, and leaves the store exactly as it was.
C17_StrictNotFound ==
    (last.op \in {"ls", "cat", "rm"} /\ MissingComponent(last.before, last.path))
        => /\ last.res \in {"notfound", "noparent"}
           /\ Disk = last.before

\* a remove of a name that is missing in an existing directory beneath the
\* root has just failed
C17_Witness ==
    /\ last.op = "rm" /\ last.res = "notfound" /\ Len(last.path) = 2
    /\ MissingComponent(last.before, last.path)
    /\ IsDirAt(dirname(last.path))
    /\ Disk = last.before

\* C18: an extract of a path that leads to a directory fails on the type
\* and writes no byte; whatever an extract writes comes from an inode whose
\* type is regular file.
C18_ExtractRegularOnly ==
    last.op = "cat"
        => LET t == Target(last.before, last.path)
           IN /\ (t.rc = 0 /\ IsDir(t.rec.mode))
                    => last.res = "notreg" /\ last.bytes = << >>
              /\ last.bytes # << >>
                    => t.rc = 0 /\ IsReg(t.rec.mode) /\ ~IsDir(t.rec.mode)

\* an extract of a directory beneath the root that holds an entry has just
\* been refused
C18_Witness ==
    /\ last.op = "cat" /\ last.res = "notreg" /\ last.bytes = << >>
    /\ Len(last.path) = 1
    /\ IsDirAt(last.path)
    /\ \E n \in Names : Resolve(Append(last.path, n)).rc = 0

\* the names of the live entries of directory i
LiveNames(i) == {PosName(Disk, read_inode(Disk, i), p) : p \in LiveEntries(i)}

\* the lines a listing prints for the entries of the directory itself
OwnLines(lines) == SelectSeq(lines, LAMBDA line : line.indent = 0)

\* how many of the lines carry the name
TimesListed(lines, name) == Cardinality({k \in DOMAIN lines : lines[k].name = name})

\* C19: the listing of a directory prints the name of every live entry of
\* the directory exactly once, and no other name.
C19_ListedOnce ==
    \A q \in Paths :
        IsDirAt(q)
            => LET l == list_command(Disk, q)
                   own == OwnLines(l.lines)
               IN /\ l.res = "ok"
                  /\ \A n \in LiveNames(Resolve(q).inode) : TimesListed(own, n) = 1
                  /\ \A k \in DOMAIN own : own[k].name \in LiveNames(Resolve(q).inode)

\* C20: an ls of a path that resolves to a regular file succeeds and prints
\* one line, the name of the file.
C20_ListFileName ==
    (/\ last.op = "ls"
     /\ last.path # << >>
     /\ Target(last.before, last.path).rc = 0
     /\ IsReg(Target(last.before, last.path).rec.mode)
     /\ ~IsDir(Target(last.before, last.path).rec.mode))
        => /\ last.res = "ok"
           /\ Len(list_command(last.before, last.path).lines) = 1
           /\ list_command(last.before, last.path).lines[1].name
                  = NameCode(basename(last.path))

\* the last add as far as its parent directory, the inode it allocated and
\* the end of its fread loop
AddParent == parent_of(initialize_exfs2(last.before), dirname(last.path), TRUE)
AddInode == allocate_inode(AddParent.fs)
AddStream ==
    add_file_stream(AddInode.fs, [ZeroInode EXCEPT !.mode = EXFS2_IFREG], last.bytes,
                    0, AddInode.num)
\* the data blocks the fread loop allocated, indirect blocks included
AddBlocks == AddStream.fs.db \ AddInode.fs.db

ExitStatus == main_exit(last.op, last.res)

\* C22: an invocation exits with status 0 exactly when its operation
\* succeeded; every ls, add, cat, rm or debug that failed exits with a
\* status other than 0.
C22_ExitStatus ==
    last.op # "none" => (ExitStatus = EXIT_SUCCESS <=> last.res = "ok")

PROGRAM_BLOCK_SIZE == 4096
INODE_METADATA_SIZE == 2 + 8 + 3 * 4
INODE_DIRECT_POINTER_SPACE == PROGRAM_BLOCK_SIZE - INODE_METADATA_SIZE
PROGRAM_NUM_DIRECT == INODE_DIRECT_POINTER_SPACE \div 4
PROGRAM_POINTERS_PER_INDIRECT_BLOCK == PROGRAM_BLOCK_SIZE \div 4

\* the pointer get_block_num_for_file_offset uses for a block index, under
\* a geometry: a direct slot, a slot of the single indirect block, or none
block_map_slot(block_index_in_file, num_direct, pointers) ==
    IF block_index_in_file < num_direct THEN << "direct", block_index_in_file >>
    ELSE IF block_index_in_file < num_direct + pointers
    THEN << "single", block_index_in_file - num_direct >>
    ELSE << "none", 0 >>

\* the slots that hold the blocks of a file of the given size in the program
ProgramSlotsOf(size) ==
    {block_map_slot(i, PROGRAM_NUM_DIRECT, PROGRAM_POINTERS_PER_INDIRECT_BLOCK) :
         i \in 0..((size + PROGRAM_BLOCK_SIZE - 1) \div PROGRAM_BLOCK_SIZE - 1)}

\* C24: an add stores its file in an inode of 10 direct pointers: a file of
\* 10 * 4096 + 1 bytes is held by exactly ten direct pointers and the first
\* slot of the single indirect block.
C24_ReferenceLayout ==
    (last.op = "add" /\ last.res = "ok")
        => /\ PROGRAM_NUM_DIRECT = 10
           /\ ProgramSlotsOf(10 * 4096 + 1)
                  = {<< "direct", i >> : i \in 0..9} \cup {<< "single", 0 >>}

\* the blocks the block map is described to reach: D + P + P^2 + P^3
CapacityBlocks == FileCapacity \div BLOCK_SIZE

\* the block map asked, with allocation, for a block index of the file in
\* inode i
Translate(i, block_index) ==
    get_block_num_for_file_offset(Disk, read_inode(Disk, i), block_index * BLOCK_SIZE,
                                  TRUE, i)

\* C25: the block map refuses a block index as too large exactly when the
\* index is at or beyond D + P + P^2 + P^3; a smaller index, in the double
\* and triple indirect ranges too, gets a block (or fails on the allocator,
\* which has then been asked).
C25_TooLargeAtCapacity ==
    \A i \in LiveInodes :
        IsReg(read_inode(Disk, i).mode)
            => \A block_index \in 0..CapacityBlocks :
                   IF block_index >= CapacityBlocks
                   THEN Translate(i, block_index).num = 0
                   ELSE \/ Translate(i, block_index).num # 0
                        \/ Translate(i, block_index).fs # Disk

\* a path resolves in the store to an inode whose bitmap bit is clear
Dangling(fs) ==
    \E q \in Paths : /\ traverse_path(fs, q, FALSE).rc = 0
                     /\ traverse_path(fs, q, FALSE).inode \notin fs.ib

\* the stores the last remove went through
RemoveSteps ==
    remove_steps(initialize_exfs2(last.before),
                 parent_of(initialize_exfs2(last.before), dirname(last.path), FALSE).inode,
                 basename(last.path))

RECURSIVE Behind(_, _, _)
Behind(fs, b, level) ==
    IF b = 0 THEN {}
    ELSE IF level = 0 \/ ~read_block_ok(fs, b) THEN {b}
    ELSE {b} \cup UNION {Behind(fs, Ptr(read_block(fs, b), k), level - 1) :
                             k \in 0..(POINTERS_PER_INDIRECT_BLOCK - 1)}

\* the data blocks inode i reaches in a store: its direct blocks and what is
\* behind its single, double and triple indirect pointers
BlocksOf(fs, i) ==
    LET rec == read_inode(fs, i)
    IN ({rec.direct[k] : k \in 1..NUM_DIRECT} \ {0})
           \cup Behind(fs, rec.single, 1) \cup Behind(fs, rec.double, 2)
           \cup Behind(fs, rec.triple, 3)

\* the inodes the paths at and beneath a path led to in a store
InodesBeneath(fs, path) ==
    {Target(fs, q).inode : q \in {p \in Paths : IsPrefix(path, p) /\ Target(fs, p).rc = 0}}

\* C27: after a remove, the inode of the target and the inodes beneath it
\* are free, and so is every data block they reached: direct blocks, the
\* blocks behind the single, double and triple indirect pointers, and the
\* indirect blocks themselves at every level.
C27_RemovedAllFreed ==
    (last.op = "rm" /\ last.res = "ok")
        => \A i \in InodesBeneath(last.before, last.path) :
               /\ i \notin inode_bitmap
               /\ BlocksOf(last.before, i) \cap data_bitmap = {}

\* the lines of a listing of the root
RootLines == OwnLines(list_command(Disk, << >>).lines)

\* C28: block 0 is followed as the root's directory block: a listing of the
\* root prints the entries "." and ".." that initialisation wrote there, and
\* an add beneath a root whose first direct pointer is 0 puts its entry into
\* block 0, where lookup finds it.
C28_BlockZeroFollowed ==
    /\ \A n \in {".", ".."} : \E k \in DOMAIN RootLines : RootLines[k].name = NameCode(n)
    /\ (/\ last.op = "add" /\ last.res = "ok" /\ Len(last.path) = 1
        /\ read_inode(last.before, ROOT_INODE_NUM).direct[1] = 0)
           => /\ read_inode(Disk, ROOT_INODE_NUM).direct[1] = 0
              /\ \E j \in 0..(DIRENTS_PER_BLOCK - 1) :
                     /\ EntIno(read_block(Disk, 0), j) = last.inode
                     /\ EntName(read_block(Disk, 0), j) = NameCode(basename(last.path))

\* C29: an add that fails once its parent path is resolved (the host file
\* cannot be read, the data cannot be stored, the entry cannot be added)
\* leaves the store as it was before the call: the directories it created
\* for the parent path are released with everything else it allocated.
C29_FailedAddRestores ==
    (last.op = "add" /\ last.res \in {"nolocal", "write_error", "noentry"})
        => Disk = last.before

\* the inode the entry of a name in the blocks of a directory inode holds,
\* 0 when there is none
EntryOf(fs, dir_inode_num, name) ==
    LET rec == read_inode(fs, dir_inode_num)
        hits == {p \in DirPos : /\ PosReadable(fs, rec, p)
                                /\ PosIno(fs, rec, p) # 0
                                /\ PosName(fs, rec, p) = NameCode(name)}
    IN IF hits = {} THEN 0 ELSE PosIno(fs, rec, SetMin(hits))

\* the inode the entries lead to along a path, 0 when an entry is missing
RECURSIVE Walk(_, _, _, _)
Walk(fs, path, k, inode_num) ==
    IF k > Len(path) THEN inode_num
    ELSE IF EntryOf(fs, inode_num, path[k]) = 0 THEN 0
    ELSE Walk(fs, path, k + 1, EntryOf(fs, inode_num, path[k]))

\* the proper prefixes of a path that do not resolve in the store
MissingPrefixes(path) == {d \in DirPrefixes(path) : Resolve(d).rc # 0}

\* what the resolver, run in create-missing mode on a path whose final
\* component does not resolve, has to have done when it returns t
CreatedUpToFinal(q, t) ==
    /\ Cardinality(t.fs.ib \ inode_bitmap) = Cardinality(MissingPrefixes(q))
    /\ MissingPrefixes(q) = {} => t.fs = Disk
    /\ t.inode = Walk(t.fs, dirname(q), 1, ROOT_INODE_NUM)
    /\ EntryOf(t.fs, t.inode, basename(q)) = 0
    /\ last_component(t, q) = NameCode(basename(q))

\* the resolver in create-missing mode returned t without an error
CreatedOk(q, t) == t.rc = 0 => CreatedUpToFinal(q, t)

CreatedSecondOnly(q, t) ==
    /\ t.rc = 0
    /\ Cardinality(t.fs.ib \ inode_bitmap) = 1
    /\ t.inode \notin inode_bitmap
    /\ EntryOf(t.fs, t.inode, basename(q)) = 0

ParentSize(fs) == read_inode(fs, parent_of(fs, dirname(last.path), FALSE).inode).size

\* C31: the size of a directory follows its entries: it is one entry record
\* more after an entry was added to it and one entry record less after an
\* entry was removed from it.
C31_DirSizeFollowsEntries ==
    /\ (last.op = "add" /\ last.res = "ok" /\ Len(last.path) = 1)
           => ParentSize(Disk) = ParentSize(last.before) + DIRENT_SIZE
    /\ (last.op = "rm" /\ last.res = "ok")
           => ParentSize(Disk) = ParentSize(last.before) - DIRENT_SIZE

\* C32: an inode whose bitmap bit is clear holds a zeroed record: its type
\* is free and none of its block pointers is set.
C32_FreeInodeZeroed ==
    \A i \in 1..(NumInodes - 1) :
        (i \notin inode_bitmap /\ read_inode_ok(Disk, i))
            => /\ read_inode(Disk, i).mode = 0
               /\ read_inode(Disk, i).direct = ZeroDirect
               /\ read_inode(Disk, i).single = 0
               /\ read_inode(Disk, i).double = 0

\* the unused entries of the blocks directory d has, in the store as it is
UnusedEntries(d) ==
    {p \in DirPos : /\ PosReadable(Disk, read_inode(Disk, d), p)
                    /\ PosIno(Disk, read_inode(Disk, d), p) = 0}

\* r is what add_entry_to_dir returns for directory d, a name and an inode
\* number: with an unused entry in a block of d the first of them holds the
\* new entry, no block is allocated and no other block is written; without
\* one, a success has allocated one block, which d points to and which holds
\* the new entry at index 0
EntryPlaced(d, name, n, r) ==
    IF UnusedEntries(d) # {}
    THEN /\ r.rc = 0
         /\ r.fs.db = data_bitmap
         /\ read_inode(r.fs, d).direct = read_inode(Disk, d).direct
         /\ LET b == PosBlock(read_inode(Disk, d), SetMin(UnusedEntries(d)))
            IN /\ r.fs.blk[b]
                      = SetEnt(data_blocks[b], PosEnt(SetMin(UnusedEntries(d))), n, name)
               /\ \A c \in 0..(NumBlocks - 1) : c # b => r.fs.blk[c] = data_blocks[c]
    ELSE r.rc = 0
             => /\ Cardinality(r.fs.db \ data_bitmap) = 1
                /\ \E i \in 1..NUM_DIRECT :
                       /\ read_inode(Disk, d).direct[i] = 0
                       /\ read_inode(r.fs, d).direct[i] \in r.fs.db \ data_bitmap
                       /\ r.fs.blk[read_inode(r.fs, d).direct[i]] = SetEnt(ZeroCells, 0, n, name)

SelfNames == {".", ".."}

\* the paths that end in "." or in "..", and the path "/"
SelfPaths ==
    {Append(q, s) : q \in {x \in Paths : Len(x) < MaxDepth}, s \in SelfNames} \cup {<< >>}

\* C34: add and remove refuse a path whose last component is "." or ".."
\* (add the path "/" as well): the call fails and leaves the store as it is,
\* so that no entry "." or ".." of any directory is created, overwritten or
\* removed.  Stated of every store a command can still run on.
C34_SelfNamesRefused ==
    commands < MaxCommands
        => \A p \in SelfPaths :
               /\ \A local \in LocalFiles :
                      /\ add_file(initialize_exfs2(Disk), p, local).res = "invalid"
                      /\ add_file(initialize_exfs2(Disk), p, local).fs = Disk
               /\ remove_file_or_dir(initialize_exfs2(Disk), p).res \in {"invalid", "root"}
               /\ remove_file_or_dir(initialize_exfs2(Disk), p).fs = Disk

\* a directory other than the root is there with its entries "." and "..",
\* and a file can be added next to them; add and remove are given the paths
\* of both entries
C34_Witness ==
    /\ commands < MaxCommands
    /\ \E q \in Paths :
           /\ Len(q) = 1
           /\ IsDirAt(q)
           /\ EntryOf(Disk, Resolve(q).inode, ".") = Resolve(q).inode
           /\ \E p \in DirPos :
                  /\ PosReadable(Disk, read_inode(Disk, Resolve(q).inode), p)
                  /\ PosName(Disk, read_inode(Disk, Resolve(q).inode), p) = NameCode("..")
           /\ add_file(Disk, Append(q, "a"), [readable |-> TRUE, bytes |-> ZeroFile]).res = "ok"
           /\ add_file(Disk, Append(q, ".."), [readable |-> TRUE, bytes |-> ZeroFile]).res = "invalid"
           /\ remove_file_or_dir(Disk, Append(q, ".")).res = "invalid"

\* the logical blocks a translation is asked for: those the block map is
\* described to reach and one beyond them
LogicalBlocks == 0..FileCapacity

\* the slot of logical block k of the inode record, or a pointer on the way
\* to it, is null
SlotNull(rec, k) ==
    IF k < NUM_DIRECT THEN rec.direct[k + 1] = 0
    ELSE IF k < NUM_DIRECT + POINTERS_PER_INDIRECT_BLOCK
    THEN \/ rec.single = 0
         \/ ~read_block_ok(Disk, rec.single)
         \/ Ptr(read_block(Disk, rec.single), k - NUM_DIRECT) = 0
    ELSE TRUE

\* the translation of logical block k of live inode i, allocation disabled
ReadTranslate(i, k) ==
    get_block_num_for_file_offset(Disk, read_inode(Disk, i), k * BLOCK_SIZE, FALSE, i)

\* C35: translating a logical block with allocation disabled writes nothing:
\* the bitmaps, the inode records and the data blocks are as before, the
\* record of the caller as well, and the result is the null pointer when the
\* slot or an indirect pointer on the way is null; extract, which translates
\* every block of a file so, leaves the store as it found it.  The
\* translation is stated of every live inode of every store between two
\* commands.
C35_ReadPathWritesNothing ==
    /\ last.op = "none"
           => \A i \in LiveInodes, k \in LogicalBlocks :
                  /\ ReadTranslate(i, k).fs = Disk
                  /\ ReadTranslate(i, k).inode = read_inode(Disk, i)
                  /\ SlotNull(read_inode(Disk, i), k) => ReadTranslate(i, k).num = 0
    /\ last.op = "cat" => Disk = last.before

\* extract has written out a file of more than one block, and the store
\* holds an inode whose direct slot is null and an inode whose direct slot is
\* set and whose single indirect pointer is null
C35_Witness ==
    /\ last.op = "cat" /\ last.res = "ok" /\ Len(last.bytes) > BLOCK_SIZE
    /\ \E i, j \in LiveInodes :
           /\ read_inode(Disk, i).direct[1] = 0
           /\ read_inode(Disk, j).direct[1] # 0 /\ read_inode(Disk, j).single = 0
           /\ ReadTranslate(j, 0).num # 0

\* C36: initialization writes the root structures on the first run only:
\* once segment 0 of both kinds is there, the initialization an invocation
\* starts with changes no bitmap, no inode record and no data block, so an
\* invocation that itself changes nothing (a listing, an extract, a debug)
\* ends with the store the invocations before it left.
C36_InitializedOnce ==
    /\ (max_inode_segment_idx >= 0 /\ max_data_segment_idx >= 0)
           => initialize_exfs2(Disk) = Disk
    /\ last.op \in {"ls", "cat", "debug"} => Disk = last.before

\* a listing has run on a store that earlier invocations added a directory
\* and a file to
C36_Witness ==
    /\ last.op = "ls" /\ last.res = "ok"
    /\ Cardinality(inode_bitmap) >= 3 /\ Cardinality(data_bitmap) >= 3
    /\ \E i \in LiveInodes : IsReg(read_inode(Disk, i).mode)
    /\ \E i \in LiveInodes \ {ROOT_INODE_NUM} : IsDir(read_inode(Disk, i).mode)

\* the entries of directory d that carry the name "." or "..", in the store
\* as it is
SelfEntries(d) ==
    {p \in DirPos : /\ PosReadable(Disk, read_inode(Disk, d), p)
                    /\ PosName(Disk, read_inode(Disk, d), p)
                           \in {NameCode("."), NameCode("..")}}

\* the entries "." and ".." of directory d are in store fs where they are
\* in the store as it is, with the same names and the same inode numbers
SelfEntriesKept(d, fs) ==
    \A p \in SelfEntries(d) :
        /\ PosReadable(fs, read_inode(fs, d), p)
        /\ PosName(fs, read_inode(fs, d), p) = PosName(Disk, read_inode(Disk, d), p)
        /\ PosIno(fs, read_inode(fs, d), p) = PosIno(Disk, read_inode(Disk, d), p)

\* C37: add_entry never overwrites or displaces an entry "." or "..": after
\* an add into a directory its "." and ".." are there as before, with the
\* same targets, also in a directory right beneath the root, whose ".."
\* names inode 0.  Stated of add_entry_to_dir on every live directory of
\* every store between two commands.
C37_SelfEntriesSurvive ==
    last.op = "none"
        => \A d \in LiveInodes :
               IsDir(read_inode(Disk, d).mode)
                   => SelfEntriesKept(d, add_entry_to_dir(Disk, d, NameCode("b"),
                                                          NumInodes - 1).fs)

\* the directories a path leads to from the root
ReachableDirs == {Resolve(q).inode : q \in {x \in Paths : IsDirAt(x)}}

\* the live entries, other than "." and "..", of the directories reachable
\* from the root that name inode i: the directory and the position
Namers(i) ==
    {e \in ReachableDirs \X DirPos :
        /\ e[2] \in LiveEntries(e[1])
        /\ PosIno(Disk, read_inode(Disk, e[1]), e[2]) = i
        /\ PosName(Disk, read_inode(Disk, e[1]), e[2])
               \notin {NameCode("."), NameCode("..")}}

\* C38: the bitmap bit of an inode is set exactly when the inode is the root
\* or one live entry, other than "." and "..", of a directory reachable from
\* the root names it: no inode is leaked, no live entry names a free inode
\* and no inode has two parents.  Stated of every store between two
\* commands.
C38_InodeNamedOnce ==
    last.op = "none"
        => /\ ROOT_INODE_NUM \in inode_bitmap
           /\ \A i \in 1..(NumInodes - 1) :
                  /\ (i \in inode_bitmap) <=> (Namers(i) # {})
                  /\ Cardinality(Namers(i)) <= 1

\* the live entries with the name in the directories of a store: the inode
\* of the directory and the position
EntriesNamed(fs, name) ==
    {e \in (0..(NumInodes - 1)) \X DirPos :
        /\ e[1] \in fs.ib /\ read_inode_ok(fs, e[1])
        /\ IsDir(read_inode(fs, e[1]).mode)
        /\ PosReadable(fs, read_inode(fs, e[1]), e[2])
        /\ PosIno(fs, read_inode(fs, e[1]), e[2]) # 0
        /\ PosName(fs, read_inode(fs, e[1]), e[2]) = NameCode(name)}

\* the parent path of the last command led to a regular file when it ran
ParentWasFile ==
    /\ Len(last.path) >= 2
    /\ Target(last.before, dirname(last.path)).rc = 0
    /\ IsReg(Target(last.before, dirname(last.path)).rec.mode)

\* C39: an add whose parent path leads to a regular file fails, leaves the
\* content of that file and both bitmaps as they were, and creates no entry
\* with the name of its last component in any directory.
C39_AddBelowFile ==
    (last.op = "add" /\ ParentWasFile)
        => /\ last.res # "ok"
           /\ inode_bitmap = last.before.ib
           /\ data_bitmap = last.before.db
           /\ extract_file(Disk, dirname(last.path)).res
                  = extract_file(last.before, dirname(last.path)).res
           /\ extract_file(Disk, dirname(last.path)).out
                  = extract_file(last.before, dirname(last.path)).out
           /\ EntriesNamed(Disk, basename(last.path))
                  \subseteq EntriesNamed(last.before, basename(last.path))

\* the slot the variant reads for the number its last create call returned
CreatedRead ==
    IF variant.created.kind = "inode"
    THEN read_inode_slot(variant.inodes, variant.created.num)
    ELSE read_datablock_slot(variant.data, variant.created.num)

\* C40: in the byte-per-slot variant the number create_inode and
\* create_datablock return names the slot they marked, segment * 255 + local
\* index: reading the number reaches that slot, and the number of an object
\* made in segment 1 or later is not the number of a slot of segment 0.
C40_ReturnedNumberNamesSlot ==
    variant.created.kind # "none"
        => /\ variant.created.num
                  = variant.created.segment * BITMAP_BYTES + variant.created.index
           /\ CreatedRead.rc = 0
           /\ CreatedRead.segment = variant.created.segment
           /\ CreatedRead.index = variant.created.index
           /\ variant.created.segment >= 1 => variant.created.num >= BITMAP_BYTES

====
